---- MODULE Spec2Model ----
(***************************************************************************)
(* Model of the FKS forex service (src/src/api/routes.py, health.py).     *)
(*                                                                         *)
(* Representation choices:                                                 *)
(*   - a Python str on which the code calls upper() or == is a sequence of *)
(*     one-character strings, so that case conversion is computed;         *)
(*   - a Python dict that is iterated is a sequence of [key, value]        *)
(*     entries in insertion order;                                          *)
(*   - Optional[T] is None or Some(v);                                      *)
(*   - a float is an integer number of its last printed digit              *)
(*     (confidence in 1/100, prices and pip values in 1/10000);             *)
(*   - the wall clock is a time of day counted in ticks, TicksPerHour      *)
(*     ticks to the hour; "HH:00" schedule strings are the hour HH.        *)
(* The handlers are coroutines without an await, so the event loop runs    *)
(* each one to completion: one action per handler.  The clock is the only  *)
(* thing that moves while a handler runs, which the handlers model by      *)
(* letting it advance between two successive reads.                        *)
(***************************************************************************)
EXTENDS Integers, Sequences, FiniteSets, TLC

VARIABLES FOREX_PAIRS, clock, pc, request, reads, response, served

vars == <<FOREX_PAIRS, clock, pc, request, reads, response, served>>

----------------------------------------------------------------------------
(* Bounds *)

TicksPerHour == 2
MaxAdvance == 1
MaxRequests == 2

DayTicks == 24 * TicksPerHour

----------------------------------------------------------------------------
(* Optional values *)

None == [isNone |-> TRUE]
Some(v) == [isNone |-> FALSE, val |-> v]

----------------------------------------------------------------------------
(* Strings: str.upper() on ASCII text *)

LowerLetters == <<"a","b","c","d","e","f","g","h","i","j","k","l","m",
                  "n","o","p","q","r","s","t","u","v","w","x","y","z">>
UpperLetters == <<"A","B","C","D","E","F","G","H","I","J","K","L","M",
                  "N","O","P","Q","R","S","T","U","V","W","X","Y","Z">>

UpperChar(c) ==
    IF \E i \in 1..26 : LowerLetters[i] = c
    THEN UpperLetters[CHOOSE i \in 1..26 : LowerLetters[i] = c]
    ELSE c

upper(s) == [i \in 1..Len(s) |-> UpperChar(s[i])]

\* str.lower(), used to spell request inputs
LowerChar(c) ==
    IF \E i \in 1..26 : UpperLetters[i] = c
    THEN LowerLetters[CHOOSE i \in 1..26 : UpperLetters[i] = c]
    ELSE c

lower(s) == [i \in 1..Len(s) |-> LowerChar(s[i])]

\* bool(s) of a str: the empty string is falsy
Truthy(opt) == (~opt.isNone) /\ Len(opt.val) > 0

----------------------------------------------------------------------------
(* The clock *)

HourOf(t) == t \div TicksPerHour
Later(t, d) == (t + d) % DayTicks

----------------------------------------------------------------------------
(* Catalog data *)

ForexPair(symbol, base, quote, category, pip_value) ==
    [symbol |-> symbol, base |-> base, quote |-> quote,
     category |-> category, pip_value |-> pip_value, spread_avg |-> None]

major == <<"m","a","j","o","r">>
minor == <<"m","i","n","o","r">>
exotic == <<"e","x","o","t","i","c">>

EURUSD == <<"E","U","R","U","S","D">>
GBPUSD == <<"G","B","P","U","S","D">>
USDJPY == <<"U","S","D","J","P","Y">>
USDCHF == <<"U","S","D","C","H","F">>
AUDUSD == <<"A","U","D","U","S","D">>
USDCAD == <<"U","S","D","C","A","D">>
NZDUSD == <<"N","Z","D","U","S","D">>
EURGBP == <<"E","U","R","G","B","P">>
EURJPY == <<"E","U","R","J","P","Y">>
GBPJPY == <<"G","B","P","J","P","Y">>
AUDJPY == <<"A","U","D","J","P","Y">>
EURAUD == <<"E","U","R","A","U","D">>
EURCHF == <<"E","U","R","C","H","F">>
GBPCHF == <<"G","B","P","C","H","F">>
USDZAR == <<"U","S","D","Z","A","R">>
USDMXN == <<"U","S","D","M","X","N">>
USDTRY == <<"U","S","D","T","R","Y">>
USDINR == <<"U","S","D","I","N","R">>

Entry(k, v) == [key |-> k, value |-> v]

InitialPairs ==
    << Entry(EURUSD, ForexPair(EURUSD, "EUR", "USD", major, 1)),
       Entry(GBPUSD, ForexPair(GBPUSD, "GBP", "USD", major, 1)),
       Entry(USDJPY, ForexPair(USDJPY, "USD", "JPY", major, 100)),
       Entry(USDCHF, ForexPair(USDCHF, "USD", "CHF", major, 1)),
       Entry(AUDUSD, ForexPair(AUDUSD, "AUD", "USD", major, 1)),
       Entry(USDCAD, ForexPair(USDCAD, "USD", "CAD", major, 1)),
       Entry(NZDUSD, ForexPair(NZDUSD, "NZD", "USD", major, 1)),
       Entry(EURGBP, ForexPair(EURGBP, "EUR", "GBP", minor, 1)),
       Entry(EURJPY, ForexPair(EURJPY, "EUR", "JPY", minor, 100)),
       Entry(GBPJPY, ForexPair(GBPJPY, "GBP", "JPY", minor, 100)),
       Entry(AUDJPY, ForexPair(AUDJPY, "AUD", "JPY", minor, 100)),
       Entry(EURAUD, ForexPair(EURAUD, "EUR", "AUD", minor, 1)),
       Entry(EURCHF, ForexPair(EURCHF, "EUR", "CHF", minor, 1)),
       Entry(GBPCHF, ForexPair(GBPCHF, "GBP", "CHF", minor, 1)),
       Entry(USDZAR, ForexPair(USDZAR, "USD", "ZAR", exotic, 1)),
       Entry(USDMXN, ForexPair(USDMXN, "USD", "MXN", exotic, 1)),
       Entry(USDTRY, ForexPair(USDTRY, "USD", "TRY", exotic, 1)),
       Entry(USDINR, ForexPair(USDINR, "USD", "INR", exotic, 1)) >>

\* values() losing the last entry
Values_short(d) == [i \in 1..(Len(d) - 1) |-> d[i].value]

\* dict operations: values(), "in", []
Values(d) == [i \in 1..Len(d) |-> d[i].value]
HasKey(d, k) == \E i \in 1..Len(d) : d[i].key = k
Lookup(d, k) == d[CHOOSE i \in 1..Len(d) : d[i].key = k].value

----------------------------------------------------------------------------
(* Responses *)

Ok(body) == [status |-> 200, body |-> body]
HTTPException(status_code, detail) == [status |-> status_code, detail |-> detail]
NoResponse == [status |-> 0]
NoRequest == [op |-> "none"]

----------------------------------------------------------------------------
(* Helpers *)

\* the first boundary off by one
_get_current_session_late(hour) ==
    IF 0 <= hour /\ hour <= 6 THEN "tokyo"
    ELSE IF 6 <= hour /\ hour < 9 THEN "tokyo_london"
    ELSE IF 9 <= hour /\ hour < 12 THEN "london"
    ELSE IF 12 <= hour /\ hour < 16 THEN "london_new_york"
    ELSE IF 16 <= hour /\ hour < 21 THEN "new_york"
    ELSE "sydney"

\* _get_current_session, as a function of the hour it reads from the clock
_get_current_session(hour) ==
    IF 0 <= hour /\ hour < 6 THEN "tokyo"
    ELSE IF 6 <= hour /\ hour < 9 THEN "tokyo_london"
    ELSE IF 9 <= hour /\ hour < 12 THEN "london"
    ELSE IF 12 <= hour /\ hour < 16 THEN "london_new_york"
    ELSE IF 16 <= hour /\ hour < 21 THEN "new_york"
    ELSE "sydney"

\* the conditions of the if/elif chain, in source order
BranchCondition(b, hour) ==
    CASE b = 1 -> 0 <= hour /\ hour < 6
      [] b = 2 -> 6 <= hour /\ hour < 9
      [] b = 3 -> 9 <= hour /\ hour < 12
      [] b = 4 -> 12 <= hour /\ hour < 16
      [] b = 5 -> 16 <= hour /\ hour < 21

----------------------------------------------------------------------------
(* Handlers, as functions of their arguments, the catalog and the clock   *)
(* values they read                                                        *)

\* the category compared ignoring case
list_pairs_nocase(pairs_dict, category) ==
    LET pairs == Values(pairs_dict)
    IN  Ok(IF Truthy(category)
           THEN SelectSeq(pairs, LAMBDA p : p.category = lower(category.val))
           ELSE pairs)

list_pairs(pairs_dict, category) ==
    LET pairs == Values(pairs_dict)
    IN  Ok(IF Truthy(category)
           THEN SelectSeq(pairs, LAMBDA p : p.category = category.val)
           ELSE pairs)

\* the lookup without the upper()
get_pair_raw(pairs_dict, symbol) ==
    IF ~HasKey(pairs_dict, symbol)
    THEN HTTPException(404, <<"Pair ">> \o symbol \o <<" not found">>)
    ELSE Ok(Lookup(pairs_dict, symbol))

get_pair(pairs_dict, symbol) ==
    LET sym == upper(symbol)
    IN  IF ~HasKey(pairs_dict, sym)
        THEN HTTPException(404, <<"Pair ">> \o sym \o <<" not found">>)
        ELSE Ok(Lookup(pairs_dict, sym))

\* include_ai defaulting to False
AnalyzeRequest_noai(symbol, timeframe, include_ai) ==
    [symbol |-> symbol,
     timeframe |-> IF timeframe.isNone THEN "1h" ELSE timeframe.val,
     include_ai |-> IF include_ai.isNone THEN FALSE ELSE include_ai.val]

AnalyzeRequest(symbol, timeframe, include_ai) ==
    [symbol |-> symbol,
     timeframe |-> IF timeframe.isNone THEN "1h" ELSE timeframe.val,
     include_ai |-> IF include_ai.isNone THEN TRUE ELSE include_ai.val]

Indicators ==
    [rsi |-> 523000,
     macd |-> [value |-> 12, signal |-> 8, histogram |-> 4],
     bb |-> [upper |-> 10900, middle |-> 10850, lower |-> 10800],
     atr |-> 45, ema_20 |-> 10845, ema_50 |-> 10830, ema_200 |-> 10780]

AiAnalysis(session) ==
    [bull_case |-> "EUR strength on hawkish ECB stance",
     bear_case |-> "USD safe-haven demand amid risk-off",
     key_levels |-> "Watch 1.0900 resistance",
     session_bias |-> <<session, " session typically bullish for EUR">>]

\* the membership test on the symbol as sent
analyze_pair_raw(pairs_dict, req, tSession, tStamp) ==
    LET symbol == upper(req.symbol)
        session == _get_current_session(HourOf(tSession))
    IN  IF ~HasKey(pairs_dict, req.symbol)
        THEN HTTPException(404, <<"Pair ">> \o symbol \o <<" not found">>)
        ELSE Ok([symbol |-> symbol, timeframe |-> req.timeframe,
                 timestamp |-> tStamp, price |-> 10850,
                 direction |-> "NEUTRAL", confidence |-> 65,
                 indicators |-> Indicators, session |-> session,
                 volatility |-> "MEDIUM",
                 support_levels |-> <<10800, 10750, 10700>>,
                 resistance_levels |-> <<10900, 10950, 11000>>,
                 ai_analysis |-> IF req.include_ai
                                 THEN Some(AiAnalysis(session)) ELSE None])

\* tSession: the clock value _get_current_session reads;
\* tStamp: the clock value datetime.utcnow() reads afterwards
analyze_pair(pairs_dict, req, tSession, tStamp) ==
    LET symbol == upper(req.symbol)
        session == _get_current_session(HourOf(tSession))
        result == [symbol |-> symbol,
                   timeframe |-> req.timeframe,
                   timestamp |-> tStamp,
                   price |-> 10850,
                   direction |-> "NEUTRAL",
                   confidence |-> 65,
                   indicators |-> Indicators,
                   session |-> session,
                   volatility |-> "MEDIUM",
                   support_levels |-> <<10800, 10750, 10700>>,
                   resistance_levels |-> <<10900, 10950, 11000>>,
                   ai_analysis |-> None]
    IN  IF ~HasKey(pairs_dict, symbol)
        THEN HTTPException(404, <<"Pair ">> \o symbol \o <<" not found">>)
        ELSE IF req.include_ai
             THEN Ok([result EXCEPT !.ai_analysis = Some(AiAnalysis(session))])
             ELSE Ok(result)

LONG == <<"L","O","N","G">>
SHORT == <<"S","H","O","R","T">>

\* the mock signals; t1 and t2 are the two datetime.utcnow() reads
SeedSignals(t1, t2) ==
    << [id |-> "fx-001", symbol |-> EURUSD, direction |-> LONG,
        entry_price |-> 10850, stop_loss |-> 10800, take_profit |-> 10950,
        confidence |-> 78, timeframe |-> "4h", session |-> "london",
        created_at |-> t1, expires_at |-> None,
        reasoning |-> "Bullish engulfing at support with RSI divergence"],
       [id |-> "fx-002", symbol |-> GBPJPY, direction |-> SHORT,
        entry_price |-> 1885000, stop_loss |-> 1892000, take_profit |-> 1870000,
        confidence |-> 72, timeframe |-> "1h", session |-> "tokyo",
        created_at |-> t2, expires_at |-> None,
        reasoning |-> "Double top pattern with bearish momentum"] >>

DefaultMinConfidence == 70

\* the threshold exclusive
get_signals_strict(symbol, direction, min_confidence, t1, t2) ==
    LET threshold == IF min_confidence.isNone THEN DefaultMinConfidence
                     ELSE min_confidence.val
        s0 == SeedSignals(t1, t2)
        s1 == IF Truthy(symbol)
              THEN SelectSeq(s0, LAMBDA s : s.symbol = upper(symbol.val))
              ELSE s0
        s2 == IF Truthy(direction)
              THEN SelectSeq(s1, LAMBDA s : s.direction = upper(direction.val))
              ELSE s1
    IN  Ok(SelectSeq(s2, LAMBDA s : s.confidence > threshold))

get_signals(symbol, direction, min_confidence, t1, t2) ==
    LET threshold == IF min_confidence.isNone THEN DefaultMinConfidence
                     ELSE min_confidence.val
        s0 == SeedSignals(t1, t2)
        s1 == IF Truthy(symbol)
              THEN SelectSeq(s0, LAMBDA s : s.symbol = upper(symbol.val))
              ELSE s0
        s2 == IF Truthy(direction)
              THEN SelectSeq(s1, LAMBDA s : s.direction = upper(direction.val))
              ELSE s1
    IN  Ok(SelectSeq(s2, LAMBDA s : s.confidence >= threshold))

\* "HH:00" is written as the hour HH
SessionSchedule ==
    [sydney |-> [open |-> 21, close |-> 6, timezone |-> "UTC"],
     tokyo |-> [open |-> 0, close |-> 9, timezone |-> "UTC"],
     london |-> [open |-> 7, close |-> 16, timezone |-> "UTC"],
     new_york |-> [open |-> 12, close |-> 21, timezone |-> "UTC"]]

SessionOverlaps ==
    [tokyo_london |-> [start |-> 7, end |-> 9, volatility |-> "HIGH"],
     london_new_york |-> [start |-> 12, end |-> 16, volatility |-> "HIGHEST"]]

get_sessions(t) ==
    Ok([current_session |-> _get_current_session(HourOf(t)),
        sessions |-> SessionSchedule,
        overlaps |-> SessionOverlaps])

health_check == Ok([status |-> "healthy", service |-> "fks_forex"])
readiness_check == Ok([status |-> "ready", service |-> "fks_forex"])

----------------------------------------------------------------------------
(* Request inputs *)

\* every spelling of s that differs from it in letter case only
CaseVariants(s) ==
    { [i \in 1..Len(s) |-> IF i \in m THEN LowerChar(s[i]) ELSE s[i]] :
        m \in SUBSET (1..Len(s)) }

CatalogKeys == { InitialPairs[i].key : i \in 1..Len(InitialPairs) }

PathSymbols ==
    CaseVariants(EURUSD)
    \cup CatalogKeys
    \cup { lower(k) : k \in CatalogKeys }
    \cup { <<"X","X","X","Y","Y","Y">>, <<"x","x","x","y","y","y">>,
           <<"E","U","R">>, <<"e","u","r","u","s","d","1">>,
           <<"E","U","R","_","U","S","D">> }

BodySymbols ==
    CatalogKeys
    \cup { lower(EURUSD), lower(USDINR), <<"G","b","p","J","p","y">>,
           <<"e","U","r","u","S","d">> }
    \cup { <<"X","X","X","Y","Y","Y">>, <<"x","x","x","y","y","y">>,
           <<"E","U","R">>, <<"e","u","r","u","s","d","1">>, <<>> }

TimeframeInputs == { None, Some("4h") }
IncludeAiInputs == { None, Some(TRUE), Some(FALSE) }

CategoryInputs ==
    { None, Some(<<>>), Some(major), Some(minor), Some(exotic),
      Some(<<"M","a","j","o","r">>), Some(upper(minor)),
      Some(<<"m","a","j","o","r","s">>), Some(<<"o","t","h","e","r">>) }

SignalSymbolInputs ==
    { None, Some(<<>>), Some(EURUSD), Some(lower(EURUSD)),
      Some(<<"G","b","p","J","p","y">>), Some(GBPJPY), Some(USDJPY) }

DirectionInputs ==
    { None, Some(<<>>), Some(LONG), Some(lower(LONG)), Some(SHORT),
      Some(<<"S","h","o","r","t">>), Some(<<"H","O","L","D">>) }

MinConfidenceInputs ==
    { None, Some(0), Some(70), Some(72), Some(75), Some(78), Some(79),
      Some(90) }

----------------------------------------------------------------------------
(* The service *)

Init ==
    /\ FOREX_PAIRS = InitialPairs
    /\ clock \in 0..(DayTicks - 1)
    /\ pc = "idle"
    /\ request = NoRequest
    /\ reads = <<>>
    /\ response = NoResponse
    /\ served = 0

\* time passes between two requests
Tick ==
    /\ pc = "idle"
    /\ clock' = Later(clock, 1)
    /\ UNCHANGED <<FOREX_PAIRS, pc, request, reads, response, served>>

Accept == pc = "idle" /\ served < MaxRequests

Handled == pc' = "done" /\ served' = served + 1

ListPairs ==
    /\ Accept
    /\ \E category \in CategoryInputs :
         /\ request' = [op |-> "list_pairs", category |-> category]
         /\ response' = list_pairs(FOREX_PAIRS, category)
    /\ reads' = <<>>
    /\ Handled
    /\ UNCHANGED <<FOREX_PAIRS, clock>>

\* the lookup popping the entry it returns
GetPair_pop ==
    /\ Accept
    /\ \E symbol \in PathSymbols :
         /\ request' = [op |-> "get_pair", symbol |-> symbol]
         /\ response' = get_pair(FOREX_PAIRS, symbol)
         /\ FOREX_PAIRS' = SelectSeq(FOREX_PAIRS,
                               LAMBDA e : e.key # upper(symbol))
    /\ reads' = <<>>
    /\ Handled
    /\ UNCHANGED clock

GetPair ==
    /\ Accept
    /\ \E symbol \in PathSymbols :
         /\ request' = [op |-> "get_pair", symbol |-> symbol]
         /\ response' = get_pair(FOREX_PAIRS, symbol)
    /\ reads' = <<>>
    /\ Handled
    /\ UNCHANGED <<FOREX_PAIRS, clock>>

AnalyzePair ==
    /\ Accept
    /\ \E symbol \in BodySymbols, timeframe \in TimeframeInputs,
          include_ai \in IncludeAiInputs, d \in 0..MaxAdvance :
         LET tSession == clock
             tStamp == Later(clock, d)
         IN  /\ request' = [op |-> "analyze_pair", symbol |-> symbol,
                            timeframe |-> timeframe, include_ai |-> include_ai]
             /\ response' = analyze_pair(FOREX_PAIRS,
                               AnalyzeRequest(symbol, timeframe, include_ai),
                               tSession, tStamp)
             \* the 404 is raised before the clock is read
             /\ IF HasKey(FOREX_PAIRS, upper(symbol))
                THEN reads' = <<tSession, tStamp>> /\ clock' = tStamp
                ELSE reads' = <<>> /\ clock' = clock /\ d = 0
    /\ Handled
    /\ UNCHANGED FOREX_PAIRS

GetSignals ==
    /\ Accept
    /\ \E symbol \in SignalSymbolInputs, direction \in DirectionInputs,
          min_confidence \in MinConfidenceInputs,
          d \in 0..MaxAdvance :
         LET t1 == clock
             t2 == Later(clock, d)
         IN  /\ request' = [op |-> "get_signals", symbol |-> symbol,
                            direction |-> direction,
                            min_confidence |-> min_confidence]
             /\ response' = get_signals(symbol, direction, min_confidence, t1, t2)
             /\ reads' = <<t1, t2>>
             /\ clock' = t2
    /\ Handled
    /\ UNCHANGED FOREX_PAIRS

GetSessions ==
    /\ Accept
    /\ request' = [op |-> "get_sessions"]
    /\ response' = get_sessions(clock)
    /\ reads' = <<clock>>
    /\ Handled
    /\ UNCHANGED <<FOREX_PAIRS, clock>>

HealthCheck ==
    /\ Accept
    /\ request' = [op |-> "health_check"]
    /\ response' = health_check
    /\ reads' = <<>>
    /\ Handled
    /\ UNCHANGED <<FOREX_PAIRS, clock>>

ReadinessCheck ==
    /\ Accept
    /\ request' = [op |-> "readiness_check"]
    /\ response' = readiness_check
    /\ reads' = <<>>
    /\ Handled
    /\ UNCHANGED <<FOREX_PAIRS, clock>>

\* the framework sends the response; the handler's locals are gone
Respond ==
    /\ pc = "done"
    /\ pc' = "idle"
    /\ request' = NoRequest
    /\ reads' = <<>>
    /\ response' = NoResponse
    /\ UNCHANGED <<FOREX_PAIRS, clock, served>>

Next ==
    \/ Tick
    \/ ListPairs
    \/ GetPair
    \/ AnalyzePair
    \/ GetSignals
    \/ GetSessions
    \/ HealthCheck
    \/ ReadinessCheck
    \/ Respond

Spec == Init /\ [][Next]_vars

----------------------------------------------------------------------------
(* Properties *)

Done(op) == pc = "done" /\ request.op = op

\* the session table of the specification: [lo, hi) -> label
SessionTable ==
    << [lo |-> 0, hi |-> 6, label |-> "tokyo"],
       [lo |-> 6, hi |-> 9, label |-> "tokyo_london"],
       [lo |-> 9, hi |-> 12, label |-> "london"],
       [lo |-> 12, hi |-> 16, label |-> "london_new_york"],
       [lo |-> 16, hi |-> 21, label |-> "new_york"],
       [lo |-> 21, hi |-> 24, label |-> "sydney"] >>

RowsOf(h) ==
    { r \in 1..Len(SessionTable) : SessionTable[r].lo <= h /\ h < SessionTable[r].hi }

TableLabel(h) == SessionTable[CHOOSE r \in RowsOf(h) : TRUE].label

\* C1: for every UTC hour h in 0..23 the session lookup returns the label of
\* exactly one row of the fixed table (tokyo [0,6), tokyo_london [6,9),
\* london [9,12), london_new_york [12,16), new_york [16,21), sydney [21,24));
\* no hour is unmapped and no hour satisfies two conditions of the chain.
C1_SessionTable ==
    (Done("get_sessions") \/ (Done("analyze_pair") /\ response.status = 200)) =>
        LET h == HourOf(reads[1])
            label == IF request.op = "get_sessions"
                     THEN response.body.current_session
                     ELSE response.body.session
        IN  /\ h \in 0..23
            /\ Cardinality(RowsOf(h)) = 1
            /\ label = TableLabel(h)
            /\ Cardinality({ b \in 1..5 : BranchCondition(b, h) }) <= 1
            /\ (label = "sydney") = (\A b \in 1..5 : ~BranchCondition(b, h))

C1_Witness ==
    /\ Done("get_sessions")
    /\ HourOf(reads[1]) = 6
    /\ response.body.current_session = "tokyo_london"

CategoryRank(c) ==
    CASE c = major -> 1
      [] c = minor -> 2
      [] c = exotic -> 3

CountOf(b, c) == Cardinality({ i \in 1..Len(b) : b[i].category = c })

ListsWholeCatalog(b, n) ==
    /\ Len(b) = n
    /\ Len(FOREX_PAIRS) = n
    /\ \A i \in 1..Len(b) : b[i] = FOREX_PAIRS[i].value
    /\ \A i, j \in 1..Len(b) : i # j => b[i].symbol # b[j].symbol
    /\ CountOf(b, major) = 7
    /\ CountOf(b, minor) = 7
    /\ CountOf(b, exotic) = 4
    /\ \A i, j \in 1..Len(b) :
         CategoryRank(b[i].category) < CategoryRank(b[j].category) => i < j

\* C2 (as amended): list_pairs without a category filter returns all 18
\* catalog entries (7 majors, 7 minors, 4 exotics), each exactly once, in
\* catalog order: every major before every minor, every minor before every
\* exotic.
C2_ListAll ==
    (Done("list_pairs") /\ request.category = None) =>
        response.status = 200 /\ ListsWholeCatalog(response.body, 18)

\* C2 as stated: the unfiltered list has 19 entries.
C2_Original ==
    (Done("list_pairs") /\ request.category = None) =>
        response.status = 200 /\ ListsWholeCatalog(response.body, 19)

C2_Witness ==
    /\ Done("list_pairs")
    /\ request.category = None
    /\ Len(response.body) = 18
    /\ response.body[18].symbol = USDINR

CatalogIndex(p) == CHOOSE k \in 1..Len(FOREX_PAIRS) : FOREX_PAIRS[k].value = p

\* b is the subsequence of the catalog whose category is cat, in catalog order
IsCategorySubsequence(b, cat) ==
    /\ \A i \in 1..Len(b) :
         /\ \E k \in 1..Len(FOREX_PAIRS) : FOREX_PAIRS[k].value = b[i]
         /\ b[i].category = cat
    /\ \A k \in 1..Len(FOREX_PAIRS) :
         FOREX_PAIRS[k].value.category = cat =>
             \E i \in 1..Len(b) : b[i] = FOREX_PAIRS[k].value
    /\ \A i, j \in 1..Len(b) :
         i < j => CatalogIndex(b[i]) < CatalogIndex(b[j])

\* C3 (as amended): for every non-empty category filter string (also one that
\* differs from a category in letter case only) the result is exactly the
\* subsequence of the catalog whose category equals the filter, in catalog
\* order, so a filter equal to no category yields an empty sequence and never
\* an error; the empty string counts as no filter and yields the full catalog.
C3_Filter ==
    (Done("list_pairs") /\ ~request.category.isNone) =>
        /\ response.status = 200
        /\ IF Len(request.category.val) > 0
           THEN IsCategorySubsequence(response.body, request.category.val)
           ELSE response.body = [i \in 1..Len(FOREX_PAIRS) |-> FOREX_PAIRS[i].value]

\* C3 as stated: every supplied filter string, the empty one included, selects
\* exactly the entries whose category equals it.
C3_Original ==
    (Done("list_pairs") /\ ~request.category.isNone) =>
        /\ response.status = 200
        /\ IsCategorySubsequence(response.body, request.category.val)

C3_Witness ==
    /\ Done("list_pairs")
    /\ request.category = Some(<<"M","a","j","o","r">>)
    /\ response.body = <<>>

\* C4: get_pair is case-insensitive: two symbols equal after uppercasing get
\* the same outcome, and when the uppercased symbol is a catalog key the
\* outcome is the catalog record whose symbol is that uppercased string.
C4_CaseInsensitive ==
    Done("get_pair") =>
        LET sym == upper(request.symbol)
        IN  /\ \A other \in PathSymbols :
                 upper(other) = sym => get_pair(FOREX_PAIRS, other) = response
            /\ HasKey(FOREX_PAIRS, sym) =>
                 /\ response.status = 200
                 /\ response.body.symbol = sym
                 /\ \E k \in 1..Len(FOREX_PAIRS) :
                      FOREX_PAIRS[k].value = response.body

C4_Witness ==
    /\ Done("get_pair")
    /\ request.symbol = <<"e","U","r","u","S","d">>
    /\ response.status = 200
    /\ response.body.symbol = EURUSD

\* the message contains the symbol, letter case aside
Names(detail, symbol) ==
    \E i \in 1..(Len(detail) + 1) : \E j \in (i - 1)..Len(detail) :
        upper(SubSeq(detail, i, j)) = upper(symbol)

\* C5: a get_pair or analyze_pair request fails with 404 if and only if its
\* symbol, uppercased, is not a key of the catalog; a failure carries no
\* CurrencyPair or AnalysisResult and its message names the requested symbol.
C5_NotFound ==
    (Done("get_pair") \/ Done("analyze_pair")) =>
        /\ response.status \in {200, 404}
        /\ (response.status = 404) <=> ~HasKey(FOREX_PAIRS, upper(request.symbol))
        /\ response.status = 404 =>
             /\ "body" \notin DOMAIN response
             /\ Names(response.detail, request.symbol)
        /\ response.status = 200 => "body" \in DOMAIN response

C5_Witness ==
    /\ Done("analyze_pair")
    /\ request.symbol = <<"x","x","x","y","y","y">>
    /\ response.status = 404

\* C6: an analyze request on a known symbol returns ai_analysis present and
\* non-empty if and only if include_ai is true (its default); with include_ai
\* false ai_analysis is null.
C6_AiAnalysis ==
    (Done("analyze_pair") /\ response.status = 200) =>
        LET wanted == IF request.include_ai.isNone THEN TRUE
                      ELSE request.include_ai.val
            ai == response.body.ai_analysis
        IN  IF wanted
            THEN ~ai.isNone /\ DOMAIN ai.val # {}
            ELSE ai = None

C6_Witness ==
    /\ Done("analyze_pair")
    /\ response.status = 200
    /\ request.include_ai = Some(FALSE)
    /\ response.body.ai_analysis = None

\* the two seed signals as the specification names them
SeedFacts ==
    << [symbol |-> EURUSD, direction |-> LONG, confidence |-> 78],
       [symbol |-> GBPJPY, direction |-> SHORT, confidence |-> 72] >>

Brief(sig) ==
    [symbol |-> sig.symbol, direction |-> sig.direction,
     confidence |-> sig.confidence]

EqualIgnoringCase(a, b) == upper(a) = upper(b)

\* the seed passes the filters, a text filter applying when applies(filter)
Passes(seed, applies(_)) ==
    /\ applies(request.symbol) =>
         EqualIgnoringCase(seed.symbol, request.symbol.val)
    /\ applies(request.direction) =>
         EqualIgnoringCase(seed.direction, request.direction.val)
    /\ seed.confidence >= (IF request.min_confidence.isNone THEN 70
                           ELSE request.min_confidence.val)

ReturnsPassing(applies(_)) ==
    LET kept == { k \in 1..2 : Passes(SeedFacts[k], applies) }
        b == response.body
    IN  /\ response.status = 200
        /\ Len(b) = Cardinality(kept)
        /\ \A k \in kept : \E i \in 1..Len(b) : Brief(b[i]) = SeedFacts[k]
        /\ Len(b) = 2 => Brief(b[1]) = SeedFacts[1]

Supplied(opt) == ~opt.isNone
SuppliedNonEmpty(opt) == ~opt.isNone /\ opt.val # <<>>

\* C7 (as amended): get_signals returns exactly those of the two seed signals
\* (EURUSD/LONG/0.78, GBPJPY/SHORT/0.72), in seed order, that satisfy all
\* supplied non-empty filters together: symbol equal ignoring case, direction
\* equal ignoring case, and confidence >= min_confidence (inclusive, default
\* 0.7); an empty symbol or direction string filters nothing.
C7_Signals == Done("get_signals") => ReturnsPassing(SuppliedNonEmpty)

\* C7 as stated: every supplied filter restricts the result.
C7_Original == Done("get_signals") => ReturnsPassing(Supplied)

C7_Witness ==
    /\ Done("get_signals")
    /\ request.symbol = Some(<<"G","b","p","J","p","y">>)
    /\ request.direction = Some(<<"S","h","o","r","t">>)
    /\ request.min_confidence = Some(72)
    /\ Len(response.body) = 1
    /\ response.body[1].id = "fx-002"

\* the response as a function of the request and the clock values it read
ResponseTo(req, rd) ==
    CASE req.op = "list_pairs" -> list_pairs(InitialPairs, req.category)
      [] req.op = "get_pair" -> get_pair(InitialPairs, req.symbol)
      [] req.op = "analyze_pair" ->
            analyze_pair(InitialPairs,
                         AnalyzeRequest(req.symbol, req.timeframe, req.include_ai),
                         IF rd = <<>> THEN 0 ELSE rd[1],
                         IF rd = <<>> THEN 0 ELSE rd[2])
      [] req.op = "get_signals" ->
            get_signals(req.symbol, req.direction, req.min_confidence,
                        rd[1], rd[2])
      [] req.op = "get_sessions" -> get_sessions(rd[1])
      [] req.op = "health_check" -> health_check
      [] req.op = "readiness_check" -> readiness_check

\* C8: no request writes shared state: whatever requests ran before,
\* successful or failing, every step leaves FOREX_PAIRS unchanged, and the
\* response to a request is determined by its arguments and the clock alone.
C8_ReadOnly ==
    [][/\ FOREX_PAIRS' = FOREX_PAIRS
       /\ pc' = "done" => response' = ResponseTo(request', reads')]_vars

C8_Witness ==
    /\ served >= 2
    /\ Done("get_pair")
    /\ response.status = 404
    /\ FOREX_PAIRS = InitialPairs

\* the schedule has the session open during hour h
IsOpen(s, h) ==
    IF s.open < s.close
    THEN s.open <= h /\ h < s.close
    ELSE s.open <= h \/ h < s.close

\* C9: the current-session label agrees with the static schedule of the same
\* response: an overlap label only when both of its sessions are open at hour
\* h and h lies inside its entry of overlaps, a single-session label only when
\* that session is open at hour h.
C9_Original ==
    Done("get_sessions") =>
        LET h == HourOf(reads[1])
            label == response.body.current_session
            sessions == response.body.sessions
            overlaps == response.body.overlaps
        IN  /\ label = "tokyo_london" =>
                 /\ IsOpen(sessions.tokyo, h) /\ IsOpen(sessions.london, h)
                 /\ overlaps.tokyo_london.start <= h
                 /\ h < overlaps.tokyo_london.end
            /\ label = "london_new_york" =>
                 /\ IsOpen(sessions.london, h) /\ IsOpen(sessions.new_york, h)
                 /\ overlaps.london_new_york.start <= h
                 /\ h < overlaps.london_new_york.end
            /\ label \in DOMAIN sessions => IsOpen(sessions[label], h)

\* C10: in every AnalysisResult the session is the session-table label of the
\* UTC hour of the result's own timestamp, also when the clock crosses an hour
\* boundary while the request is handled.
C10_Original ==
    (Done("analyze_pair") /\ response.status = 200) =>
        response.body.session = TableLabel(HourOf(response.body.timestamp))

====
